---- MODULE Spec2Model ----
(***************************************************************************)
(* Model of beetree's BTreeMap (src/src/lib.rs).                           *)
(*                                                                         *)
(* Option<T> is a sequence of length 0 (None) or 1 (Some).  Rc<Leaf> is an *)
(* index into the heap `leaves`; two holders of the same index alias the   *)
(* same leaf.  Weak::new() is the index NoLeaf.  Array indices are 0-based *)
(* as in the source and shifted by one when a TLA+ sequence is indexed.    *)
(* A panic ends the program: `panic` names it and no call follows.         *)
(* Calls are sequential (the map is neither reentrant nor shared): a call  *)
(* leaves its result in `op`/`ret`, and the next call starts once the      *)
(* caller has taken it.                                                    *)
(***************************************************************************)
EXTENDS Integers, Sequences, FiniteSets, TLC

\* Bounds of the model: keys 1..MaxKey, values 1..MaxVal.
MaxKey == 8
MaxVal == 1

Keys == 1..MaxKey
Vals == 1..MaxVal

MIN_LEN == 4
MAX_LEN == MIN_LEN * 2 - 1

None == <<>>
Some(x) == <<x>>
NoLeaf == 0
NoPanic == ""

VARIABLES
    length,   \* BTreeMap.length
    root,     \* BTreeMap.root : Option<Node>
    leaves,   \* heap of LeafData, indexed by Rc identity
    panic,    \* NoPanic, or the fatal condition the last call ran into
    op,       \* the call whose result the caller holds, or Idle
    ret,      \* what that call returned (None after a panic)
    live      \* history: key -> Option of the value of its latest completed
              \* insert not followed by a completed remove

vars == <<length, root, leaves, panic, op, ret, live>>

----------------------------------------------------------------------------
\* Leaf (lines 123-134)

Leaf_with_data(data) == [data |-> data, left |-> NoLeaf, right |-> NoLeaf]

Leaf_new == Leaf_with_data(<<>>)

\* Node (lines 94-104): both variants as one record shape.
LeafNode(id) == [tag |-> "Leaf", leaf |-> id, heads |-> <<>>, tail |-> <<>>]

IntraNode(heads, tail) == [tag |-> "Intra", leaf |-> NoLeaf, heads |-> heads, tail |-> <<tail>>]

----------------------------------------------------------------------------
\* ArrayVec operations used by the source.

is_full(vec) == Len(vec) = MAX_LEN

\* ArrayVec::insert panics when idx > len or the vector is full (arrayvec
\* 0.4 and later, the releases with the ArrayVec<[T; N]> form and try_insert).
ArrayVec_insert_ok(vec, idx) == idx <= Len(vec) /\ ~is_full(vec)

ArrayVec_insert(vec, idx, e) ==
    SubSeq(vec, 1, idx) \o <<e>> \o SubSeq(vec, idx + 1, Len(vec))

\* vec.drain(from..): the elements taken out, and what stays.
drain_taken(vec, from) == SubSeq(vec, from + 1, Len(vec))
drain_kept(vec, from) == SubSeq(vec, 1, from)

\* slice::binary_search_by_key as the standard library computes it:
\* halve `size` keeping `base` at the last probe that is not Greater.
RECURSIVE bs_loop(_, _, _, _)
bs_loop(data, key, base, size) ==
    IF size > 1
    THEN LET half == size \div 2
             mid == base + half
         IN bs_loop(data, key, IF data[mid + 1][1] > key THEN base ELSE mid, size - half)
    ELSE base

binary_search_by_key(data, key) ==
    IF Len(data) = 0 THEN [found |-> FALSE, idx |-> 0]
    ELSE LET base == bs_loop(data, key, 0, Len(data))
             k == data[base + 1][1]
         IN IF k = key THEN [found |-> TRUE, idx |-> base]
            ELSE [found |-> FALSE, idx |-> base + (IF k < key THEN 1 ELSE 0)]

----------------------------------------------------------------------------
\* Node::insert (lines 209-238).  kind is the Insert variant returned, or
\* "Panic".  The match has a Leaf arm only: an Intra node has no path.

InsertResult(kind, lv, old, new_leaf, why) ==
    [kind |-> kind, leaves |-> lv, old |-> old, new_leaf |-> new_leaf, why |-> why]

\* The split arm (lines 222-234) on the full leaf `id`, idx from the search.
Node_insert_split(lv, id, idx, entry) ==
    LET data == lv[id].data IN
    IF idx < MIN_LEN
    THEN LET new_data == drain_taken(data, MIN_LEN)
             kept == drain_kept(data, MIN_LEN)
         IN IF ArrayVec_insert_ok(kept, idx)
            THEN InsertResult("Split",
                     Append([lv EXCEPT ![id].data = ArrayVec_insert(kept, idx, entry)],
                            Leaf_with_data(new_data)),
                     None, Len(lv) + 1, NoPanic)
            ELSE InsertResult("Panic", [lv EXCEPT ![id].data = kept], None, NoLeaf,
                              "insert_out_of_bounds")
    ELSE LET new_data == drain_taken(data, MIN_LEN + 1)
             kept == drain_kept(data, MIN_LEN + 1)
         IN IF ArrayVec_insert_ok(new_data, idx - MIN_LEN)
            THEN InsertResult("Split",
                     Append([lv EXCEPT ![id].data = kept],
                            Leaf_with_data(ArrayVec_insert(new_data, idx - MIN_LEN, entry))),
                     None, Len(lv) + 1, NoPanic)
            ELSE InsertResult("Panic", [lv EXCEPT ![id].data = kept], None, NoLeaf,
                              "insert_out_of_bounds")

Node_insert(lv, node, entry) ==
    IF node.tag = "Leaf"
    THEN LET id == node.leaf
             data == lv[id].data
             bs == binary_search_by_key(data, entry[1])
         IN IF bs.found
            THEN InsertResult("Duplicated", [lv EXCEPT ![id].data[bs.idx + 1] = entry],
                              Some(data[bs.idx + 1]), NoLeaf, NoPanic)
            ELSE IF ~is_full(data)
            THEN InsertResult("Ok",
                              [lv EXCEPT ![id].data = ArrayVec_insert(data, bs.idx, entry)],
                              None, NoLeaf, NoPanic)
            ELSE Node_insert_split(lv, id, bs.idx, entry)
    ELSE InsertResult("Panic", lv, None, NoLeaf, "no_match_arm")

----------------------------------------------------------------------------
\* BTreeMap::insert (lines 54-79): the map after the call and its result.

MapResult(len, rt, lv, r, why) ==
    [length |-> len, root |-> rt, leaves |-> lv, ret |-> r, panic |-> why]

\* BTreeMap::insert with the Insert::Ok arm not counting the new entry.
BTreeMap_insert_uncounted(len, rt, lv, key, value) ==
    LET lv0 == IF rt = None THEN Append(lv, Leaf_new) ELSE lv
        rt0 == IF rt = None THEN Some(LeafNode(Len(lv) + 1)) ELSE rt
        r == Node_insert(lv0, rt0[1], <<key, value>>)
    IN CASE r.kind = "Ok" -> MapResult(len, rt0, r.leaves, None, NoPanic)
         [] r.kind = "Duplicated" -> MapResult(len, rt0, r.leaves, Some(r.old[1][2]), NoPanic)
         [] r.kind = "Split" ->
                MapResult(len + 1,
                          Some(IntraNode(<<[node |-> rt0[1], sep |-> r.new_leaf]>>,
                                         LeafNode(r.new_leaf))),
                          r.leaves, None, NoPanic)
         [] OTHER -> MapResult(len, rt0, r.leaves, None, r.why)

\* BTreeMap::insert with the old root leaf, not the new leaf, as separator.
BTreeMap_insert_sep_left(len, rt, lv, key, value) ==
    LET lv0 == IF rt = None THEN Append(lv, Leaf_new) ELSE lv
        rt0 == IF rt = None THEN Some(LeafNode(Len(lv) + 1)) ELSE rt
        r == Node_insert(lv0, rt0[1], <<key, value>>)
    IN CASE r.kind = "Ok" -> MapResult(len + 1, rt0, r.leaves, None, NoPanic)
         [] r.kind = "Duplicated" -> MapResult(len, rt0, r.leaves, Some(r.old[1][2]), NoPanic)
         [] r.kind = "Split" ->
                MapResult(len + 1,
                          Some(IntraNode(<<[node |-> rt0[1], sep |-> rt0[1].leaf]>>,
                                         LeafNode(r.new_leaf))),
                          r.leaves, None, NoPanic)
         [] OTHER -> MapResult(len, rt0, r.leaves, None, r.why)

\* BTreeMap::insert with the new right node boxed once more under the new root.
BTreeMap_insert_nested_tail(len, rt, lv, key, value) ==
    LET lv0 == IF rt = None THEN Append(lv, Leaf_new) ELSE lv
        rt0 == IF rt = None THEN Some(LeafNode(Len(lv) + 1)) ELSE rt
        r == Node_insert(lv0, rt0[1], <<key, value>>)
    IN CASE r.kind = "Ok" -> MapResult(len + 1, rt0, r.leaves, None, NoPanic)
         [] r.kind = "Duplicated" -> MapResult(len, rt0, r.leaves, Some(r.old[1][2]), NoPanic)
         [] r.kind = "Split" ->
                MapResult(len + 1,
                          Some(IntraNode(<<[node |-> rt0[1], sep |-> r.new_leaf]>>,
                                         IntraNode(<<>>, LeafNode(r.new_leaf)))),
                          r.leaves, None, NoPanic)
         [] OTHER -> MapResult(len, rt0, r.leaves, None, r.why)

BTreeMap_insert(len, rt, lv, key, value) ==
    LET lv0 == IF rt = None THEN Append(lv, Leaf_new) ELSE lv
        rt0 == IF rt = None THEN Some(LeafNode(Len(lv) + 1)) ELSE rt
        r == Node_insert(lv0, rt0[1], <<key, value>>)
    IN CASE r.kind = "Ok" -> MapResult(len + 1, rt0, r.leaves, None, NoPanic)
         [] r.kind = "Duplicated" -> MapResult(len, rt0, r.leaves, Some(r.old[1][2]), NoPanic)
         [] r.kind = "Split" ->
                MapResult(len + 1,
                          Some(IntraNode(<<[node |-> rt0[1], sep |-> r.new_leaf]>>,
                                         LeafNode(r.new_leaf))),
                          r.leaves, None, NoPanic)
         [] OTHER -> MapResult(len, rt0, r.leaves, None, r.why)

----------------------------------------------------------------------------
\* Node::get (lines 157-181) and Node::get_mut (lines 183-207).  The result
\* is the entry found, or the panic of indexing data[0] of an empty leaf.

GetResult(found, why) == [found |-> found, why |-> why]

Min(S) == CHOOSE x \in S : \A y \in S : x <= y

\* iter().find_map(..): the first entry whose key equals the query.
find_map_eq(data, query) ==
    LET hits == {i \in 1..Len(data) : data[i][1] = query}
    IN IF hits = {} THEN None ELSE Some(data[Min(hits)])

\* heads.iter().find(..): positions are probed in order; a probe of an empty
\* separator leaf panics, a probe whose first key is >= query stops the scan.
\* 0 stands for "no head selected".
find_head(lv, heads, query) ==
    LET stops == {i \in 1..Len(heads) :
                     \/ Len(lv[heads[i].sep].data) = 0
                     \/ lv[heads[i].sep].data[1][1] >= query}
    IN IF stops = {} THEN 0 ELSE Min(stops)

RECURSIVE Node_get(_, _, _)
Node_get(lv, node, query) ==
    IF node.tag = "Leaf"
    THEN GetResult(find_map_eq(lv[node.leaf].data, query), NoPanic)
    ELSE LET i == find_head(lv, node.heads, query)
         IN IF i = 0 THEN Node_get(lv, node.tail[1], query)
            ELSE IF Len(lv[node.heads[i].sep].data) = 0
            THEN GetResult(None, "index_out_of_bounds")
            ELSE Node_get(lv, node.heads[i].node, query)

\* iter_mut().find_map(..) of get_mut (lines 189-195).
find_map_eq_mut(data, query) ==
    LET hits == {i \in 1..Len(data) : data[i][1] = query}
    IN IF hits = {} THEN None ELSE Some(data[Min(hits)])

\* The scan of get_mut stopping at a first key > query instead of >= query.
find_head_mut_strict(lv, heads, query) ==
    LET stops == {i \in 1..Len(heads) :
                     \/ Len(lv[heads[i].sep].data) = 0
                     \/ lv[heads[i].sep].data[1][1] > query}
    IN IF stops = {} THEN 0 ELSE Min(stops)

\* heads.iter_mut().find(..) of get_mut (lines 198-203).
find_head_mut(lv, heads, query) ==
    LET stops == {i \in 1..Len(heads) :
                     \/ Len(lv[heads[i].sep].data) = 0
                     \/ lv[heads[i].sep].data[1][1] >= query}
    IN IF stops = {} THEN 0 ELSE Min(stops)

RECURSIVE Node_get_mut(_, _, _)
Node_get_mut(lv, node, query) ==
    IF node.tag = "Leaf"
    THEN GetResult(find_map_eq_mut(lv[node.leaf].data, query), NoPanic)
    ELSE LET i == find_head_mut(lv, node.heads, query)
         IN IF i = 0 THEN Node_get_mut(lv, node.tail[1], query)
            ELSE IF Len(lv[node.heads[i].sep].data) = 0
            THEN GetResult(None, "index_out_of_bounds")
            ELSE Node_get_mut(lv, node.heads[i].node, query)

\* Node::remove (lines 240-245): unimplemented!().
Node_remove(lv, node, query) == [removed |-> None, leaves |-> lv, why |-> "unimplemented"]

----------------------------------------------------------------------------
\* BTreeMap (lines 23-89)

BTreeMap_len(len) == len

BTreeMap_is_empty(len) == len = 0

BTreeMap_get(rt, lv, query) ==
    IF rt = None THEN GetResult(None, NoPanic)
    ELSE LET r == Node_get(lv, rt[1], query)
         IN IF r.found = None THEN r ELSE GetResult(Some(r.found[1][2]), NoPanic)

BTreeMap_get_mut(rt, lv, query) ==
    IF rt = None THEN GetResult(None, NoPanic)
    ELSE LET r == Node_get_mut(lv, rt[1], query)
         IN IF r.found = None THEN r ELSE GetResult(Some(r.found[1][2]), NoPanic)

BTreeMap_remove(len, rt, lv, query) ==
    IF rt = None THEN MapResult(len, rt, lv, None, NoPanic)
    ELSE LET r == Node_remove(lv, rt[1], query)
         IN IF r.why # NoPanic THEN MapResult(len, rt, r.leaves, None, r.why)
            ELSE IF r.removed = None THEN MapResult(len, rt, r.leaves, None, NoPanic)
            ELSE MapResult(len - 1, rt, r.leaves, Some(r.removed[1][2]), NoPanic)

----------------------------------------------------------------------------
Call(name, key, value) == [name |-> name, key |-> key, value |-> value]

\* No call outstanding: the caller is free to make the next one.
Idle == Call("idle", 0, 0)

Ready == panic = NoPanic /\ op = Idle

Init ==
    /\ length = 0
    /\ root = None
    /\ leaves = <<>>
    /\ panic = NoPanic
    /\ op = Call("new", 0, 0)
    /\ ret = None
    /\ live = [k \in Keys |-> None]

Insert(key, value) ==
    /\ Ready
    /\ \E m \in {BTreeMap_insert(length, root, leaves, key, value)} :
          /\ length' = m.length
          /\ root' = m.root
          /\ leaves' = m.leaves
          /\ panic' = m.panic
          /\ ret' = m.ret
          /\ live' = IF m.panic = NoPanic THEN [live EXCEPT ![key] = Some(value)] ELSE live
    /\ op' = Call("insert", key, value)

Remove(query) ==
    /\ Ready
    /\ \E m \in {BTreeMap_remove(length, root, leaves, query)} :
          /\ length' = m.length
          /\ root' = m.root
          /\ leaves' = m.leaves
          /\ panic' = m.panic
          /\ ret' = m.ret
          /\ live' = IF m.panic = NoPanic THEN [live EXCEPT ![query] = None] ELSE live
    /\ op' = Call("remove", query, 0)

Get(query) ==
    /\ Ready
    /\ \E r \in {BTreeMap_get(root, leaves, query)} :
          /\ ret' = r.found
          /\ panic' = r.why
    /\ op' = Call("get", query, 0)
    /\ UNCHANGED <<length, root, leaves, live>>

\* get_mut taking the root with get_or_insert_with, as insert does.
GetMut_creating_root(query) ==
    /\ Ready
    /\ \E r \in {BTreeMap_get_mut(root, leaves, query)} :
          /\ ret' = r.found
          /\ panic' = r.why
    /\ op' = Call("get_mut", query, 0)
    /\ root' = IF root = None THEN Some(LeafNode(Len(leaves) + 1)) ELSE root
    /\ leaves' = IF root = None THEN Append(leaves, Leaf_new) ELSE leaves
    /\ UNCHANGED <<length, live>>

\* get_mut hands out the reference; the library itself writes nothing.
GetMut(query) ==
    /\ Ready
    /\ \E r \in {BTreeMap_get_mut(root, leaves, query)} :
          /\ ret' = r.found
          /\ panic' = r.why
    /\ op' = Call("get_mut", query, 0)
    /\ UNCHANGED <<length, root, leaves, live>>

LenCall ==
    /\ Ready
    /\ ret' = Some(BTreeMap_len(length))
    /\ op' = Call("len", 0, 0)
    /\ UNCHANGED <<length, root, leaves, panic, live>>

IsEmpty ==
    /\ Ready
    /\ ret' = Some(BTreeMap_is_empty(length))
    /\ op' = Call("is_empty", 0, 0)
    /\ UNCHANGED <<length, root, leaves, panic, live>>

\* The call has returned and the caller has taken its result.
Return ==
    /\ panic = NoPanic
    /\ op # Idle
    /\ op' = Idle
    /\ ret' = None
    /\ UNCHANGED <<length, root, leaves, panic, live>>

Next ==
    \/ \E key \in Keys, value \in Vals : Insert(key, value)
    \/ \E query \in Keys : Remove(query)
    \/ \E query \in Keys : Get(query)
    \/ \E query \in Keys : GetMut(query)
    \/ LenCall
    \/ IsEmpty
    \/ Return

Spec == Init /\ [][Next]_vars

----------------------------------------------------------------------------
\* Vocabulary of the properties.

Alive == panic = NoPanic

LiveKeys == {k \in Keys : live[k] # None}

\* The keys of a set as an increasing sequence.
RECURSIVE SortedKeys(_)
SortedKeys(S) == IF S = {} THEN <<>> ELSE LET m == Min(S) IN <<m>> \o SortedKeys(S \ {m})

\* The leaves below a node, left to right.
RECURSIVE TreeLeaves(_)
RECURSIVE HeadsLeaves(_, _)
TreeLeaves(node) ==
    IF node.tag = "Leaf" THEN <<node.leaf>>
    ELSE HeadsLeaves(node.heads, 1) \o TreeLeaves(node.tail[1])
HeadsLeaves(heads, i) ==
    IF i > Len(heads) THEN <<>>
    ELSE TreeLeaves(heads[i].node) \o HeadsLeaves(heads, i + 1)

RootLeaves == IF root = None THEN <<>> ELSE TreeLeaves(root[1])

\* The internal nodes strictly below a node.
RECURSIVE InnerBelow(_)
InnerBelow(node) ==
    IF node.tag = "Leaf" THEN {}
    ELSE LET kids == {node.heads[i].node : i \in 1..Len(node.heads)} \cup {node.tail[1]}
         IN {c \in kids : c.tag = "Intra"} \cup UNION {InnerBelow(c) : c \in kids}

\* The keys of a sequence of leaves, in the order stored.
RECURSIVE KeysOf(_, _)
KeysOf(lv, ids) ==
    IF ids = <<>> THEN <<>>
    ELSE [i \in 1..Len(lv[Head(ids)].data) |-> lv[Head(ids)].data[i][1]] \o KeysOf(lv, Tail(ids))

\* The leaf chain: from a leaf along the `right` links.
RECURSIVE Chain(_, _, _)
Chain(lv, id, fuel) ==
    IF id = NoLeaf \/ fuel = 0 THEN <<>>
    ELSE <<id>> \o Chain(lv, lv[id].right, fuel - 1)

LeafChain == IF RootLeaves = <<>> THEN <<>> ELSE Chain(leaves, Head(RootLeaves), Len(leaves) + 1)

StrictlyIncreasing(seq) == \A i \in 1..(Len(seq) - 1) : seq[i] < seq[i + 1]

\* What get(k) answers in the current state.
Lookup(k) == BTreeMap_get(root, leaves, k)

FANOUT == (MAX_LEN - 1) + 1
MIN_FANOUT == MIN_LEN

----------------------------------------------------------------------------
\* C1: after any sequence of completed insert and remove calls, get(k)
\* returns the value of the latest insert(k, _) not followed by remove(k),
\* and absence for every other key.
C1_GetReturnsLatestInsert ==
    (op.name = "get") => (Alive /\ ret = live[op.key])

\* C2: len() counts the live keys after every operation: insert of a present
\* key keeps it, insert of a new key adds one (also on a split), remove of a
\* present key subtracts one, remove of an absent key keeps it.
C2_LenCountsLiveKeys ==
    [][ /\ (op'.name = "insert" /\ live[op'.key] # None) => length' = length
        /\ (op'.name = "insert" /\ live[op'.key] = None) => length' = length + 1
        /\ (op'.name = "remove" /\ live[op'.key] # None) => length' = length - 1
        /\ (op'.name = "remove" /\ live[op'.key] = None) => length' = length
        /\ BTreeMap_len(length') = Cardinality(LiveKeys') ]_vars

\* C3: no sequence of calls reaches a fatal condition.
C3_NoFatalCondition == panic = NoPanic

\* C4: a leaf that is not the root holds MIN_LEN..MAX_LEN entries, a root
\* leaf 0..MAX_LEN, a non-root internal node has MIN_FANOUT..FANOUT children.
C4_NodeOccupancy ==
    (Alive /\ root # None) =>
        /\ root[1].tag = "Leaf" => Len(leaves[root[1].leaf].data) \in 0..MAX_LEN
        /\ root[1].tag = "Intra" =>
               \A i \in 1..Len(RootLeaves) :
                   Len(leaves[RootLeaves[i]].data) \in MIN_LEN..MAX_LEN
        /\ \A n \in InnerBelow(root[1]) : (Len(n.heads) + 1) \in MIN_FANOUT..FANOUT

\* C5: the walk along the neighbour links from the leftmost leaf visits every
\* leaf of the tree once, in order, and reads the live keys in increasing order.
C5_LeafChainIsSortedLiveKeys ==
    Alive =>
        /\ LeafChain = RootLeaves
        /\ StrictlyIncreasing(KeysOf(leaves, LeafChain))
        /\ KeysOf(leaves, LeafChain) = SortedKeys(LiveKeys)

\* C6: from the empty map, inserting 1..8 in increasing order keeps the root a
\* single leaf through the 7th insert and splits it on the 8th, leaving an
\* internal root with two leaf children and len() = 8.
C6_EighthIncreasingInsertSplits ==
    [][ /\ (op'.name = "insert" /\ panic' = NoPanic /\ Cardinality(LiveKeys') <= MAX_LEN)
               => root'[1].tag = "Leaf"
        /\ (op'.name = "insert" /\ op'.key = MAX_LEN + 1 /\ LiveKeys = 1..MAX_LEN)
               => /\ panic' = NoPanic
                  /\ root'[1].tag = "Intra"
                  /\ Len(root'[1].heads) = 1
                  /\ root'[1].heads[1].node.tag = "Leaf"
                  /\ root'[1].tail[1].tag = "Leaf"
                  /\ BTreeMap_len(length') = MAX_LEN + 1 ]_vars

\* C7: once every inserted key has been removed the map is empty: the remove
\* of the last live key completes and leaves len() = 0, is_empty(), every get
\* absent and no root or an empty root leaf.
C7_RemoveAllLeavesEmpty ==
    [][ (op'.name = "remove" /\ LiveKeys = {op'.key})
            => /\ panic' = NoPanic
               /\ BTreeMap_len(length') = 0
               /\ BTreeMap_is_empty(length')
               /\ \A k \in Keys : BTreeMap_get(root', leaves', k) = GetResult(None, NoPanic)
               /\ \/ root' = None
                  \/ root'[1].tag = "Leaf" /\ leaves'[root'[1].leaf].data = <<>> ]_vars

\* C8: insert(k, v) of an absent key returns absence; an insert(k, v2) that
\* follows it (k is live with value v) returns v; then get(k) is v2, len()
\* grew by one in all and every other entry is as before.
C8_InsertThenOverwrite ==
    [][ /\ (op'.name = "insert" /\ live[op'.key] = None)
            => /\ panic' = NoPanic
               /\ ret' = None
               /\ length' = length + 1
               /\ BTreeMap_get(root', leaves', op'.key) = GetResult(Some(op'.value), NoPanic)
               /\ \A j \in Keys \ {op'.key} : BTreeMap_get(root', leaves', j) = Lookup(j)
        /\ (op'.name = "insert" /\ live[op'.key] # None)
            => /\ panic' = NoPanic
               /\ ret' = live[op'.key]
               /\ length' = length
               /\ BTreeMap_get(root', leaves', op'.key) = GetResult(Some(op'.value), NoPanic)
               /\ \A j \in Keys \ {op'.key} : BTreeMap_get(root', leaves', j) = Lookup(j) ]_vars

\* C9: remove(k) of a present key returns its value and deletes the entry;
\* remove(k) of an absent key returns absence and changes nothing.
C9_RemoveReturnsAndDeletes ==
    [][ /\ (op'.name = "remove" /\ Lookup(op'.key).found # None)
            => /\ panic' = NoPanic
               /\ ret' = Lookup(op'.key).found
               /\ BTreeMap_get(root', leaves', op'.key) = GetResult(None, NoPanic)
        /\ (op'.name = "remove" /\ Lookup(op'.key).found = None)
            => /\ panic' = NoPanic
               /\ ret' = None
               /\ <<length, root, leaves>>' = <<length, root, leaves>> ]_vars

\* C10: new() gives a map with no root and len() = 0 in which every get is
\* absent; and in every state is_empty() holds exactly when no key is live.
C10_NewIsEmptyAndIsEmptyIffNoLiveKey ==
    /\ (op.name = "new") =>
           /\ root = None
           /\ BTreeMap_len(length) = 0
           /\ \A k \in Keys : Lookup(k) = GetResult(None, NoPanic)
    /\ BTreeMap_is_empty(length) <=> (LiveKeys = {})
    /\ BTreeMap_is_empty(length) <=> (KeysOf(leaves, RootLeaves) = <<>>)

\* C10 witness: is_empty() answered false on a map whose root has split.
C10_Witness ==
    /\ op.name = "is_empty"
    /\ ret = Some(FALSE)
    /\ root # None /\ root[1].tag = "Intra"
    /\ LiveKeys # {}

----------------------------------------------------------------------------
\* Vocabulary of the tree-shape properties.

\* Every internal node of the tree, the root included.
InnerNodes ==
    IF root = None THEN {}
    ELSE (IF root[1].tag = "Intra" THEN {root[1]} ELSE {}) \cup InnerBelow(root[1])

\* The i-th child of an internal node: the heads' nodes, then the tail.
ChildAt(n, i) == IF i <= Len(n.heads) THEN n.heads[i].node ELSE n.tail[1]

\* The set of keys stored below a node.
SubtreeKeys(n) ==
    LET ks == KeysOf(leaves, TreeLeaves(n)) IN {ks[i] : i \in 1..Len(ks)}

StoredKeys == IF root = None THEN {} ELSE SubtreeKeys(root[1])

\* C11: for each (child, separator) pair, every key below child is less than
\* the first key of the separator's leaf, and every key below the following
\* child is greater than or equal to it.
C11_SeparatorBoundsSubtrees ==
    Alive =>
        \A n \in InnerNodes : \A i \in 1..Len(n.heads) :
            LET sepdata == leaves[n.heads[i].sep].data IN
            /\ sepdata # <<>>
            /\ \A k \in SubtreeKeys(ChildAt(n, i)) : k < sepdata[1][1]
            /\ \A k \in SubtreeKeys(ChildAt(n, i + 1)) : k >= sepdata[1][1]

\* C12: the entries of every leaf are in strictly increasing key order.
C12_LeafEntriesStrictlyIncreasing ==
    Alive =>
        \A i \in 1..Len(RootLeaves) : StrictlyIncreasing(KeysOf(leaves, <<RootLeaves[i]>>))

\* The entries of a sequence of leaves, in the order stored.
RECURSIVE EntriesOf(_, _)
EntriesOf(lv, ids) ==
    IF ids = <<>> THEN <<>> ELSE lv[Head(ids)].data \o EntriesOf(lv, Tail(ids))

\* C13: inserting an absent key into a full leaf leaves, in the left leaf
\* followed by the new right leaf, exactly the old entries plus the new one
\* in sorted order, whatever the sorted position of the new key.
C13_SplitKeepsSortedEntries ==
    [][ ( /\ op'.name = "insert"
          /\ root # None /\ root[1].tag = "Leaf"
          /\ is_full(leaves[root[1].leaf].data)
          /\ op'.key \notin StoredKeys )
        => /\ panic' = NoPanic
           /\ Len(RootLeaves') = 2
           /\ KeysOf(leaves', RootLeaves') = SortedKeys(StoredKeys \cup {op'.key})
           /\ \A i \in 1..Len(EntriesOf(leaves', RootLeaves')) :
                  LET e == EntriesOf(leaves', RootLeaves')[i]
                  IN e[2] = IF e[1] = op'.key THEN op'.value ELSE live[e[1]][1] ]_vars

\* C14: below an internal root the read descent of get and of get_mut reaches
\* the leaf of every stored key, the first key of a separator's leaf included.
C14_DescentFindsStoredKeys ==
    (Alive /\ root # None /\ root[1].tag = "Intra") =>
        \A k \in StoredKeys :
            /\ BTreeMap_get(root, leaves, k).found # None
            /\ BTreeMap_get_mut(root, leaves, k).found # None

\* Each separator is the leftmost leaf of the child that follows its pair.
SeparatorsAreLeftmost ==
    \A n \in InnerNodes : \A i \in 1..Len(n.heads) :
        n.heads[i].sep = Head(TreeLeaves(ChildAt(n, i + 1)))

RootIsLeaf == root # None /\ root[1].tag = "Leaf"
RootIsIntra == root # None /\ root[1].tag = "Intra"

\* C15: when an insert splits the root leaf the new root has one (child,
\* separator) pair and a tail: the child is the old root leaf, the tail is a
\* new leaf, and the separator is that same leaf object; and every separator
\* is always the leftmost leaf of the next child.
C15_RootSplitShape ==
    [][ /\ (~RootIsIntra /\ RootIsIntra') =>
               /\ op'.name = "insert"
               /\ RootIsLeaf
               /\ Len(root'[1].heads) = 1
               /\ root'[1].heads[1].node = root[1]
               /\ root'[1].tail[1].tag = "Leaf"
               /\ root'[1].tail[1].leaf = root'[1].heads[1].sep
               /\ root'[1].tail[1].leaf \notin 1..Len(leaves)
               /\ root'[1].tail[1].leaf \in 1..Len(leaves')
        /\ SeparatorsAreLeftmost' ]_vars

\* C15 witness: an insert has just split the root leaf.
C15_Witness ==
    /\ op.name = "insert"
    /\ Alive
    /\ RootIsIntra
    /\ root[1].heads[1].sep = root[1].tail[1].leaf

\* C16: an insert on a map whose root is an internal node completes: it
\* returns the previous value of the key (absence for a fresh key), get then
\* returns the inserted value, and every internal node keeps one child more
\* than it has separators.
C16_InsertBelowInternalRoot ==
    [][ (op'.name = "insert" /\ RootIsIntra) =>
            /\ panic' = NoPanic
            /\ ret' = live[op'.key]
            /\ BTreeMap_get(root', leaves', op'.key) = GetResult(Some(op'.value), NoPanic)
            /\ BTreeMap_len(length') = Cardinality(LiveKeys \cup {op'.key})
            /\ \A n \in InnerNodes' : Len(n.tail) = 1 ]_vars

\* C17: get(q) and get_mut(q) complete and leave the map as it was: length,
\* root and tree shape, every leaf's entries and neighbour links.
C17_ReadsLeaveMapUnchanged ==
    [][ (op'.name \in {"get", "get_mut"}) =>
            /\ panic' = NoPanic
            /\ length' = length
            /\ root' = root
            /\ leaves' = leaves ]_vars

\* C17 witness: a get has found a key in a map whose root has split.
C17_Witness ==
    /\ op.name = "get"
    /\ RootIsIntra
    /\ ret # None

\* The depths at which the leaves below a node lie.
RECURSIVE LeafDepths(_)
LeafDepths(n) ==
    IF n.tag = "Leaf" THEN {0}
    ELSE {d + 1 : d \in UNION {LeafDepths(ChildAt(n, i)) : i \in 1..(Len(n.heads) + 1)}}

RootDepths == IF root = None THEN {} ELSE LeafDepths(root[1])

Max(S) == CHOOSE x \in S : \A y \in S : x >= y

HeightOf(depths) == IF depths = {} THEN 0 ELSE Max(depths)

Height == HeightOf(RootDepths)

\* C18: all leaves lie at the same depth; the height grows only by one and
\* only when the root splits (the old root becomes the first child of a new
\* root), and shrinks only by one and only to a child of an internal root.
C18_UniformLeafDepth ==
    [][ LET h == Height
            depths == RootDepths'
            hn == HeightOf(depths)
        IN /\ Cardinality(depths) <= 1
           /\ (hn > h) =>
                  /\ hn = h + 1
                  /\ op'.name = "insert"
                  /\ root # None
                  /\ RootIsIntra'
                  /\ root'[1].heads[1].node = root[1]
           /\ (hn < h) =>
                  /\ hn = h - 1
                  /\ RootIsIntra
                  /\ root' # None
                  /\ \E i \in 1..(Len(root[1].heads) + 1) : root'[1] = ChildAt(root[1], i) ]_vars

\* C18 witness: the root has split and both leaves lie one level below it.
C18_Witness ==
    /\ Alive
    /\ RootIsIntra
    /\ RootDepths = {1}
    /\ Len(RootLeaves) = 2

\* C19: in every state and for every query, get_mut answers what get answers
\* there: both absent, or both the value of the same entry.
C19_GetMutAgreesWithGet ==
    [][ (op'.name = "get_mut") =>
            /\ ret' = BTreeMap_get(root, leaves, op'.key).found
            /\ panic' = BTreeMap_get(root, leaves, op'.key).why ]_vars

\* C19 witness: get_mut was asked for the first key of the separator's leaf
\* of a split root, where the routing decides the answer.
C19_Witness ==
    /\ op.name = "get_mut"
    /\ RootIsIntra
    /\ op.key = leaves[root[1].heads[1].sep].data[1][1]
    /\ ret = BTreeMap_get(root, leaves, op.key).found
====
